---- MODULE Spec2Model ----
(***************************************************************************)
(* Model of webreqlog.py: the Counter class (dense time buckets) and the   *)
(* request selection of WebReqLog.loadRequests.                            *)
(*                                                                         *)
(* Time values are whole hours since 1970-01-01 00:00 UTC.  Bucket keys    *)
(* are the formatted strings of the source, kept as tuples of their        *)
(* numeric fields (day key <<Y, M, D>>, month key <<Y, M>>, hour key       *)
(* <<tens, units>>) or, for the weekday keys, as sequences of characters.  *)
(* Volume sizes are kept in bytes; the division by 1e6 of the source is    *)
(* the fixed scale of the fourth component of a metrics tuple.             *)
(* The start and end of a request line are counted in ticks of 16 seconds  *)
(* since the epoch (225 ticks an hour), so that a time window of 2**32     *)
(* seconds is the integer 2**28.                                           *)
(***************************************************************************)
EXTENDS Integers, Sequences, FiniteSets, TLC

\* ------------------------------------------------------------------ bounds
\* number of grid points of the time axis the inputs are drawn from
NumTimes == 5
\* largest number of Counter.__call__ invocations on one Counter
MaxAccum == 2
\* first grid point of the time axis: 2020-01-30 00:00 UTC, a Thursday
BaseHour == 438984
\* distance of the grid points in hours: the grid spans a week
GridStep == 42

Times == { BaseHour + k * GridStep : k \in 0 .. (NumTimes - 1) }

\* ------------------------------------------------------- calendar of Time
HoursPerDay == 24

DayNumber(t) == t \div HoursPerDay

HourOfDay(t) == t % HoursPerDay

\* Gregorian date of a day number (days since 1970-01-01), as gmtime does
CivilFromDays(z) ==
  LET zz  == z + 719468
      era == zz \div 146097
      doe == zz - era * 146097
      yoe == (doe - (doe \div 1460) + (doe \div 36524) - (doe \div 146096)) \div 365
      doy == doe - (365 * yoe + (yoe \div 4) - (yoe \div 100))
      mp  == (5 * doy + 2) \div 153
      d   == doy - ((153 * mp + 2) \div 5) + 1
      m   == IF mp < 10 THEN mp + 3 ELSE mp - 9
      y   == yoe + era * 400 + (IF m <= 2 THEN 1 ELSE 0)
  IN  <<y, m, d>>

\* t.toString("%Y-%m-%d")
DayKey(t) == CivilFromDays(DayNumber(t))

\* t.toString("%Y-%m")
MonthKey(t) == <<DayKey(t)[1], DayKey(t)[2]>>

\* t.toString("%H") and "%02d" % h
HourKey(h) == <<h \div 10, h % 10>>

\* int(t.toString("%w")): 0 = Sunday; 1970-01-01 was a Thursday
WeekdayNumber(t) == (DayNumber(t) + 4) % 7

\* the list with the ordinals of a week that starts on Monday
weekdaysMondayFirst ==
  << <<"$","6","S","u","n","d","a","y">>,
     <<"$","0","M","o","n","d","a","y">>,
     <<"$","1","T","u","e","s","d","a","y">>,
     <<"$","2","W","e","d","n","e","s","d","a","y">>,
     <<"$","3","T","h","u","r","s","d","a","y">>,
     <<"$","4","F","r","i","d","a","y">>,
     <<"$","5","S","a","t","u","r","d","a","y">> >>

\* self.weekdays
weekdays ==
  << <<"$","0","S","u","n","d","a","y">>,
     <<"$","1","M","o","n","d","a","y">>,
     <<"$","2","T","u","e","s","d","a","y">>,
     <<"$","3","W","e","d","n","e","s","d","a","y">>,
     <<"$","4","T","h","u","r","s","d","a","y">>,
     <<"$","5","F","r","i","d","a","y">>,
     <<"$","6","S","a","t","u","r","d","a","y">> >>

\* self.weekdays[int(t.toString("%w"))]
WeekdayKey(t) == weekdays[WeekdayNumber(t) + 1]

\* ------------------------------------------------------------ dictionaries
EmptyDict == [k \in {} |-> 0]

ZeroMetrics == <<0, 0, 0, 0>>

\* dict.setdefault(k, v), as the resulting dictionary
SetDefault(d, k, v) == IF k \in DOMAIN d THEN d ELSE d @@ (k :> v)

\* d[k] = v
Store(d, k, v) == [x \in (DOMAIN d) \cup {k} |-> IF x = k THEN v ELSE d[x]]

\* ------------------------------------------------------------------ Counter
VARIABLES
  cpc,          \* "new" before the constructor has run, "ready" after it
  counter,      \* the Counter object: its four dictionaries
  cstart,       \* the start argument of the constructor
  cend,         \* the end argument of the constructor
  accumulated   \* the requests the Counter was called with, in order

cvars == <<cpc, counter, cstart, cend, accumulated>>

VARIABLES
  args,        \* session.args: the criteria of the query string
  cb,          \* TRUE when loadRequests is given a callback
  stored,      \* the records the database query yields, in order
  spc,         \* "call" before loadRequests ran, then "returned", "raised"
               \* (NameError) or "failed" (exception of a load)
  selection,   \* the list loadRequests returned
  emitted,     \* the projections the callback was called with, in order
  statusLoaded, \* ids of the requests whose status lines were loaded
  linesLoaded, \* ids of the requests whose request lines were loaded
  failure      \* the load of sub-lines at which the database fails, if any

svars ==
  <<args, cb, stored, spc, selection, emitted, statusLoaded, linesLoaded,
    failure>>

VARIABLES
  export,      \* TRUE when self.export is not empty (the report is exported)
  startTime,   \* str2date(session.args.get("startTime"))
  endTime,     \* str2date(session.args.get("endTime"))
  report       \* the dictionaries and totals of printRequestSummary

avars == <<export, startTime, endTime, report>>

vars == <<cvars, svars, avars>>

\* the loop with the test "t <= end"
RECURSIVE PresetInclusive(_, _, _)
PresetInclusive(c, t, end) ==
  IF t <= end
  THEN PresetInclusive(
         [c EXCEPT !.daily     = SetDefault(@, DayKey(t), ZeroMetrics),
                   !.monthly   = SetDefault(@, MonthKey(t), ZeroMetrics),
                   !.weekdaily = SetDefault(@, WeekdayKey(t), ZeroMetrics)],
         t + HoursPerDay, end)
  ELSE c

\* one pass of the "while t < end" loop body, then the rest of the loop
RECURSIVE Preset(_, _, _)
Preset(c, t, end) ==
  IF t < end
  THEN Preset([c EXCEPT !.daily     = SetDefault(@, DayKey(t), ZeroMetrics),
                        !.monthly   = SetDefault(@, MonthKey(t), ZeroMetrics),
                        !.weekdaily = SetDefault(@, WeekdayKey(t), ZeroMetrics)],
              t + HoursPerDay, end)
  ELSE c

\* for h in range(0,24): self.hourly.setdefault("%02d" % h, (0,0,0,0))
PresetHours == [k \in { HourKey(h) : h \in 0 .. 23 } |-> ZeroMetrics]

EmptyCounter ==
  [hourly |-> EmptyDict, daily |-> EmptyDict,
   monthly |-> EmptyDict, weekdaily |-> EmptyDict]

\* the hourly keys seeded inside the loop over the days
CounterNewHoursInLoop(start, end) ==
  IF start < end
  THEN [Preset(EmptyCounter, start, end) EXCEPT !.hourly = PresetHours]
  ELSE EmptyCounter

\* Counter.__init__(start, end); wwwChart passes two Time values, for which
\* "if start and end" holds
CounterNew(start, end) ==
  [Preset(EmptyCounter, start, end) EXCEPT !.hourly = PresetHours]

RECURSIVE SumSeq(_)
SumSeq(s) == IF s = <<>> THEN 0 ELSE Head(s) + SumSeq(Tail(s))

\* the volume taken from the last status line only
CallDeltaLastSize(request) ==
  <<1, request.total, request.total - request.ok,
    IF request.sizes = <<>> THEN 0 ELSE request.sizes[Len(request.sizes)]>>

\* the tuple a call adds to a bucket: (1, l, e, volSize)
CallDelta(request) ==
  <<1, request.total, request.total - request.ok, SumSeq(request.sizes)>>

\* the bucket assigned the tuple of the call instead of the sum
AddToOverwrite(d, key, delta) == Store(d, key, delta)

\* (requests+1, lines+l, errors+e, size+volSize) on self.<dict>[key]
AddTo(d, key, delta) ==
  LET old == SetDefault(d, key, ZeroMetrics)[key]
  IN  Store(d, key, <<old[1] + delta[1], old[2] + delta[2],
                      old[3] + delta[3], old[4] + delta[4]>>)

\* a call that leaves the counter as it is for a request accumulated before
CounterCallOncePerRequest(c, request) ==
  IF \E i \in DOMAIN accumulated : accumulated[i] = request THEN c
  ELSE LET date  == request.created
           delta == CallDelta(request)
       IN  [hourly    |-> AddTo(c.hourly, HourKey(HourOfDay(date)), delta),
            daily     |-> AddTo(c.daily, DayKey(date), delta),
            monthly   |-> AddTo(c.monthly, MonthKey(date), delta),
            weekdaily |-> AddTo(c.weekdaily, WeekdayKey(date), delta)]

\* Counter.__call__(request)
CounterCall(c, request) ==
  LET date  == request.created
      delta == CallDelta(request)
  IN  [hourly    |-> AddTo(c.hourly, HourKey(HourOfDay(date)), delta),
       daily     |-> AddTo(c.daily, DayKey(date), delta),
       monthly   |-> AddTo(c.monthly, MonthKey(date), delta),
       weekdaily |-> AddTo(c.weekdaily, WeekdayKey(date), delta)]

\* the requests a Counter is called with: the creation time, the summary
\* (totalLineCount, okLineCount) and the sizes of the status lines
CounterRequests ==
  { [created |-> t, total |-> b[1], ok |-> b[2], sizes |-> b[3]] :
      t \in Times,
      b \in { <<1, 1, <<>>>>, <<2, 1, <<3, 5>>>>, <<0, 0, <<3>>>> } }


\* ------------------------------------------------- WebReqLog.loadRequests
\* largest number of records the query yields
MaxReqs == 2

\* session.args.get(key, False) for a key that is not in the query string
Absent == "<False>"

\* bool(v) for a value of session.args
Truthy(v) == v # Absent /\ v # ""

\* the names bound in the module's global namespace (imports and defs)
ModuleGlobals ==
  {"StringIO", "os", "sys", "re", "gc", "socket", "datetime", "timedelta",
   "make_server", "logs", "seiscomp", "uuid", "smtplib", "MIMEText",
   "VERSION", "EMAIL_FROM", "EMAIL_SMTP", "byte2h", "sec2h", "dateTimeRe",
   "dateTimeSelector", "str2date", "date2str", "html_escape_table",
   "html_escape", "dummy_start_response", "Session", "Counter", "WebReqLog",
   "app"}

\* a namespace in which every name is bound
NameResolvesEveryName(n) == TRUE

\* evaluating the global name n succeeds; otherwise it raises NameError
NameResolves(n) == n \in ModuleGlobals

\* message.replace("%20", " ")
Unescape(m) == IF m = "no%20data" THEN "no data" ELSE m

\* restricted after lines 1378-1381: "0", "1" or None
RestrictedArg(raw) ==
  IF raw = "no" THEN "0" ELSE IF raw = "yes" THEN "1" ELSE "None"

\* streamID.replace("*", "").replace("?", ""), segment by segment
StripWildcards(segments) ==
  [i \in DOMAIN segments |->
     IF segments[i] \in {"*", "?"} THEN "" ELSE segments[i]]

\* (net, sta, loc, cha) = streamID.split("."), ("","","","") on failure
StreamPattern(segments) ==
  IF Len(segments) = 4 THEN StripWildcards(segments) ELSE <<"", "", "", "">>

\* len(streamID) > 0 for the string the segments are joined to
StreamGiven(segments) == Len(segments) > 1 \/ StripWildcards(segments) # <<"">>

\* userIP / clientIP after lines 1433-1434
IPArg(raw) == IF raw = "unknown" THEN "" ELSE raw

\* the status lines of a request that pass lines 1460-1463
StatusLineMatches(a, sline) ==
  /\ ~(Truthy(a.volume) /\ a.volume # sline.volumeID)
  /\ ~(Truthy(a.message) /\ Unescape(a.message) # sline.message)
  /\ ~(Truthy(a.onlyErrors) /\ sline.status = "OK")

\* the request lines of a request that pass lines 1476-1485
RequestLineMatches(a, line) ==
  LET pat == StreamPattern(a.streamID)
      res == RestrictedArg(a.restricted)
  IN  /\ ~(Truthy(a.volume) /\ a.volume # line.volumeID)
      /\ ~(Truthy(a.message) /\ Unescape(a.message) # line.message)
      /\ ~(Truthy(a.onlyErrors) /\ line.status = "OK")
      /\ StreamGiven(a.streamID) =>
            /\ ~(pat[1] # "" /\ pat[1] # line.net)
            /\ ~(pat[2] # "" /\ pat[2] # line.sta)
            /\ ~(pat[3] # "" /\ pat[3] # line.loc)
            /\ ~(pat[4] # "" /\ pat[4] # line.cha)
      /\ ~(res # "None" /\ (res = "1") # line.restricted)

\* the loop of lines 1457-1465: the status lines added to Xrequest
RECURSIVE MatchingStatusLines(_, _)
MatchingStatusLines(a, lines) ==
  IF lines = <<>> THEN <<>>
  ELSE IF StatusLineMatches(a, Head(lines))
       THEN <<Head(lines)>> \o MatchingStatusLines(a, Tail(lines))
       ELSE MatchingStatusLines(a, Tail(lines))

\* the loop of lines 1473-1487: the request lines added to Xrequest
RECURSIVE MatchingRequestLines(_, _)
MatchingRequestLines(a, lines) ==
  IF lines = <<>> THEN <<>>
  ELSE IF RequestLineMatches(a, Head(lines))
       THEN <<Head(lines)>> \o MatchingRequestLines(a, Tail(lines))
       ELSE MatchingRequestLines(a, Tail(lines))

\* tw: the sum of end - start over the lines with start <= end, in ticks
RECURSIVE TimeWindow(_)
TimeWindow(lines) ==
  IF lines = <<>> THEN 0
  ELSE (IF Head(lines).start <= Head(lines).end
        THEN Head(lines).end - Head(lines).start ELSE 0) + TimeWindow(Tail(lines))

\* errorCount: the lines whose status is not OK
RECURSIVE ErrorCount(_)
ErrorCount(lines) ==
  IF lines = <<>> THEN 0
  ELSE (IF Head(lines).status # "OK" THEN 1 ELSE 0) + ErrorCount(Tail(lines))

\* averageTimeWindow > 2**32 for the quotient tw / lineCount of a time
\* window of tw ticks: tw * 16 > 2**32 * lineCount, both sides over 16
ExceedsTwoTo32(tw, lineCount) == tw > 268435456 * lineCount

\* the summary set on Xrequest by lines 1496-1504; the average is the exact
\* quotient <<numerator, denominator>> of the true division, in ticks
DerivedSummary(lines) ==
  LET lineCount == Len(lines)
      tw        == TimeWindow(lines)
      den       == IF lineCount > 0 THEN lineCount ELSE 1
  IN  [total |-> lineCount,
       ok    |-> lineCount - ErrorCount(lines),
       averageTimeWindow |->
          IF ExceedsTwoTo32(tw, den) THEN <<-1, 1>> ELSE <<tw, den>>]

\* a copy that keeps the status lines and request lines of the original
CopyRequestWithChildren(request) == request

\* seiscomp.datamodel.ArclinkRequest(request): the attributes, no child
CopyRequest(request) ==
  [request EXCEPT !.slines = <<>>, !.rlines = <<>>]

\* the clientIP comparison without its "else: continue"
RejectedByUserIPOnly(a, request) ==
  IPArg(a.userIP) # Absent /\ IPArg(a.userIP) # request.userIP

\* lines 1442-1447: a given userIP or clientIP differs from the request's
RejectedByIP(a, request) ==
  \/ IPArg(a.userIP) # Absent /\ IPArg(a.userIP) # request.userIP
  \/ IPArg(a.clientIP) # Absent /\ IPArg(a.clientIP) # request.clientIP

\* line 1449 without its test of onlyErrors
InitialFoundAnyStatus(a, request) == request.status # "END"

\* lines 1449-1450: foundRequest before the sub-lines are looked at
InitialFoundRequest(a, request) ==
  Truthy(a.onlyErrors) /\ request.status # "END"

\* request lines loaded for every criteria
LinesAlwaysWanted(a) == TRUE

\* line 1468: lines or restricted is not None
LinesWanted(a) == Truthy(a.lines) \/ RestrictedArg(a.restricted) # "None"

\* one pass of the loop of lines 1436-1510 for one request: what becomes of
\* the request ("skip", "accept" or "raise"), the projection Xrequest, and
\* which of its sub-lines were loaded from the database
Evaluate(a, request) ==
  LET reqErrors     == request.total - request.ok
      userIP        == IPArg(a.userIP)
      clientIP      == IPArg(a.clientIP)
      foundUserIP   == userIP # Absent /\ userIP = request.userIP
      foundClientIP == clientIP # Absent /\ clientIP = request.clientIP
      rejectedByIP  == RejectedByIP(a, request)
      noStatusLine  == Truthy(a.volume) /\ Len(request.slines) = 0
      slines        == MatchingStatusLines(a, request.slines)
      foundVolume   == slines # <<>>
      wantLines     == LinesWanted(a)
      rlines        == IF wantLines
                       THEN MatchingRequestLines(a, request.rlines)
                       ELSE <<>>
      foundLine     == rlines # <<>>
      summary       == DerivedSummary(rlines)
      Xrequest      ==
        IF wantLines
        THEN [CopyRequest(request) EXCEPT
                !.slines = @ \o slines, !.rlines = @ \o rlines,
                !.total = summary.total, !.ok = summary.ok,
                !.averageTimeWindow = summary.averageTimeWindow]
        ELSE [CopyRequest(request) EXCEPT !.slines = @ \o slines]
      byStatus      == \/ InitialFoundRequest(a, request)
                       \/ /\ ~Truthy(a.lines) /\ ~Truthy(a.volume)
                          /\ Truthy(a.onlyErrors) /\ reqErrors > 0
      byIP          == /\ ~Truthy(a.message) /\ ~Truthy(a.lines)
                       /\ ~Truthy(a.onlyErrors) /\ ~Truthy(a.volume)
                       /\ (foundUserIP \/ foundClientIP)
      foundRequest  == byStatus \/ byIP
  IN  IF rejectedByIP
      THEN [kind |-> "skip", proj |-> CopyRequest(request),
            statusLoaded |-> FALSE, linesLoaded |-> FALSE]
      ELSE IF noStatusLine
      THEN [kind |-> "skip", proj |-> CopyRequest(request),
            statusLoaded |-> TRUE, linesLoaded |-> FALSE]
      ELSE IF foundVolume /\ ~NameResolves("DataModel")
      THEN [kind |-> "raise", proj |-> CopyRequest(request),
            statusLoaded |-> TRUE, linesLoaded |-> FALSE]
      ELSE IF wantLines /\ ~NameResolves("DataModel")
      THEN [kind |-> "raise", proj |-> CopyRequest(request),
            statusLoaded |-> TRUE, linesLoaded |-> TRUE]
      ELSE [kind |-> IF foundRequest \/ foundLine \/ foundVolume
                     THEN "accept" ELSE "skip",
            proj |-> Xrequest,
            statusLoaded |-> TRUE, linesLoaded |-> wantLines]

\* the loop of lines 1405-1416 without its try statement: every record
FinishedKeepAll(records) == records

\* lines 1405-1416: the records whose summary() does not raise
RECURSIVE Finished(_)
Finished(records) ==
  IF records = <<>> THEN <<>>
  ELSE IF Head(records).hasSummary
       THEN <<Head(records)>> \o Finished(Tail(records))
       ELSE Finished(Tail(records))

\* the request objects as the query yields them: a record of stored holds
\* the sub-lines of the database, which an object has only once loaded
Unloaded(requests) ==
  [i \in DOMAIN requests |-> [requests[i] EXCEPT !.slines = <<>>, !.rlines = <<>>]]

\* line 1418 with the stream pattern among the criteria
NoSelectionUnlessStream(a, callback) ==
  ~(\/ RestrictedArg(a.restricted) # "None"
    \/ Truthy(a.onlyErrors) \/ Truthy(a.lines) \/ Truthy(a.volume)
    \/ Truthy(a.message) \/ Truthy(a.userIP) \/ Truthy(a.clientIP)
    \/ StreamGiven(a.streamID)
    \/ callback)

\* line 1418: no criterion and no callback
NoSelection(a, callback) ==
  ~(\/ RestrictedArg(a.restricted) # "None"
    \/ Truthy(a.onlyErrors) \/ Truthy(a.lines) \/ Truthy(a.volume)
    \/ Truthy(a.message) \/ Truthy(a.userIP) \/ Truthy(a.clientIP)
    \/ callback)

\* the database answers every load
NoFailure == [kind |-> "none", id |-> 0]

\* loadArclinkStatusLines (kind "status", line 1455) or
\* loadArclinkRequestLines (kind "lines", line 1469) raises for the request
StoreFails(kind, request) == failure.kind = kind /\ failure.id = request.id

RECURSIVE SelectLoop(_, _, _, _)

\* the failed load caught and the loop continued with the next request
SkipFailedRequest(a, callback, rest, st) == SelectLoop(a, callback, rest, st)

\* no try statement encloses the loads of lines 1455 and 1469: the exception
\* of a load leaves the loop and loadRequests, the requests still to visit
\* are not visited and the caller gets no list
AfterFailure(a, callback, rest, st) ==
  [st EXCEPT !.result = "failed", !.selection = <<>>]

\* the loop of lines 1436-1510 over the requests still to visit, from the
\* state st = [result, selection, emitted, statusLoaded, linesLoaded]; an
\* exception ends the loop and the caller gets no list
SelectLoop(a, callback, requests, st) ==
  IF requests = <<>> THEN st
  ELSE
    LET request == Head(requests)
        ev      == Evaluate(a, request)
        loaded  == [st EXCEPT
                      !.statusLoaded = IF ev.statusLoaded
                                       THEN @ \cup {request.id} ELSE @,
                      !.linesLoaded  = IF ev.linesLoaded
                                       THEN @ \cup {request.id} ELSE @]
    IN  IF ev.statusLoaded /\ StoreFails("status", request)
        THEN AfterFailure(a, callback, Tail(requests), st)
        ELSE IF ev.linesLoaded /\ StoreFails("lines", request)
        THEN AfterFailure(a, callback, Tail(requests),
                          [st EXCEPT !.statusLoaded = @ \cup {request.id}])
        ELSE IF ev.kind = "raise"
        THEN [loaded EXCEPT !.result = "raised", !.selection = <<>>]
        ELSE IF ev.kind = "accept"
        THEN SelectLoop(a, callback, Tail(requests),
                        IF callback
                        THEN [loaded EXCEPT !.emitted = Append(@, ev.proj)]
                        ELSE [loaded EXCEPT !.selection = Append(@, ev.proj)])
        ELSE SelectLoop(a, callback, Tail(requests), loaded)

\* WebReqLog.loadRequests(session, cb)
LoadRequestsResult(a, callback, records) ==
  LET requests == Finished(records)
      start    == [result |-> "returned", selection |-> <<>>, emitted |-> <<>>,
                   statusLoaded |-> {}, linesLoaded |-> {}]
  IN  IF NoSelection(a, callback)
      THEN [start EXCEPT !.selection = Unloaded(requests)]
      ELSE SelectLoop(a, callback, requests, start)

\* ------------------------------------------ WebReqLog.printRequestSummary
\* the value dict.setdefault(k, v) returns
ValueOrDefault(d, k, v) == IF k \in DOMAIN d THEN d[k] ELSE v

\* the element of a set of one element
TheOne(S) == CHOOSE x \in S : TRUE

\* lines 951-965: the dictionaries and totals before the loop
EmptyReport(start, end) ==
  [users |-> EmptyDict, rtypes |-> EmptyDict, streams |-> EmptyDict,
   errors |-> EmptyDict, messages |-> EmptyDict, total |-> 0,
   volumes |-> EmptyDict, userIPs |-> EmptyDict, clientIPs |-> EmptyDict,
   nets |-> EmptyDict, timeMin |-> end, timeMax |-> start]

\* request.type().upper()
Upper(t) == IF t = "waveform" THEN "WAVEFORM" ELSE t

\* netcode[0]
FirstChar(netcode) ==
  CASE netcode = "GE" -> "G"
    [] netcode \in {"II", "IU"} -> "I"
    [] netcode = "XX" -> "X"
    [] netcode = "ZE" -> "Z"

\* line.start().toString('%Y') for a time in ticks
YearOf(t) == CivilFromDays(t \div (225 * HoursPerDay))[1]

\* the key of a request line in netcounts, the year never appended
NetworkKeyWithoutYear(line) == <<line.net>>

\* lines 1035-1037: netcode, with '/' and the year of the start appended
\* when its first character is one of 'XYZ'
NetworkKey(line) ==
  IF FirstChar(line.net) \in {"X", "Y", "Z"}
  THEN <<line.net, "/", YearOf(line.start)>>
  ELSE <<line.net>>

\* one pass of the loop of lines 974-994, on w = [rep, volume_error,
\* netcounts]: the report and the two dictionaries kept per request
StatusLineStep(w, user, sline) ==
  LET err    == IF sline.status = "OK" THEN 0 ELSE 1
      volume == sline.volumeID
      failed == sline.status = "ERROR"
      size   == IF failed THEN 0 ELSE sline.size
      v      == ValueOrDefault(w.rep.volumes, volume, <<0, 0, 0>>)
      u      == ValueOrDefault(w.rep.users, user, <<0, 0, 0, 0>>)
      m      == ValueOrDefault(w.rep.messages, sline.message, 0)
  IN  [w EXCEPT
         !.volume_error = Store(@, volume, failed),
         !.rep.volumes  = Store(@, volume, <<v[1] + 1, v[2] + err, v[3] + size>>),
         !.rep.users    = Store(@, user, <<u[1], u[2], u[3], u[4] + size>>),
         !.rep.messages = Store(@, sline.message, m + 1)]

\* the loop of lines 974-994: each pass works on the value the pass before
\* it has left
RECURSIVE StatusLoop(_, _, _)
StatusLoop(w, user, slines) ==
  IF slines = <<>> THEN w
  ELSE TheOne({ StatusLoop(next, user, Tail(slines)) :
                  next \in { StatusLineStep(w, user, Head(slines)) } })

\* lines 1006-1027: the bytes a request line adds
LineSize(volume_error, line) ==
  IF line.status \in {"ERROR", "NODATA"} THEN 0
  ELSE IF line.volumeID \in DOMAIN volume_error
       THEN (IF volume_error[line.volumeID] THEN 0 ELSE line.size)
       ELSE line.size

\* one pass of the loop of lines 998-1040
RequestLineStep(w, line) ==
  LET stream     == <<line.net, ".", line.sta>>
      timeWindow == IF line.end - line.start < 0 THEN 0
                    ELSE line.end - line.start
      error      == IF line.status = "ERROR" THEN 1 ELSE 0
      nodata     == IF line.status = "NODATA" THEN 1 ELSE 0
      size       == LineSize(w.volume_error, line)
      st         == ValueOrDefault(w.rep.streams, stream, <<0, 0, 0, 0, 0>>)
      m          == ValueOrDefault(w.rep.messages, line.message, 0)
      netcode    == NetworkKey(line)
      nc         == ValueOrDefault(w.netcounts, netcode, <<0, 0, 0, 0>>)
  IN  [w EXCEPT
         !.rep.streams  = Store(@, stream,
                                <<st[1] + 1, st[2] + nodata, st[3] + error,
                                  st[4] + size, st[5] + timeWindow>>),
         !.rep.messages = Store(@, line.message, m + 1),
         !.netcounts    = Store(@, netcode,
                                <<nc[1] + 1, nc[2] + nodata, nc[3] + error,
                                  nc[4] + size>>)]

\* the loop of lines 998-1040
RECURSIVE LineLoop(_, _)
LineLoop(w, rlines) ==
  IF rlines = <<>> THEN w
  ELSE TheOne({ LineLoop(next, Tail(rlines)) :
                  next \in { RequestLineStep(w, Head(rlines)) } })

\* nets[netcode] assigned the counts of the request instead of the sum
MergeNetcountsOverwrite(nets, netcounts) ==
  [k \in (DOMAIN nets) \cup (DOMAIN netcounts) |->
     IF k \in DOMAIN netcounts
     THEN LET nc == netcounts[k]
          IN  <<1, nc[1], nc[2], nc[3], nc[4]>>
     ELSE nets[k]]

\* lines 1042-1044: the counts of the request added to nets
MergeNetcounts(nets, netcounts) ==
  [k \in (DOMAIN nets) \cup (DOMAIN netcounts) |->
     IF k \in DOMAIN netcounts
     THEN LET old == ValueOrDefault(nets, k, <<0, 0, 0, 0, 0>>)
              nc  == netcounts[k]
          IN  <<old[1] + 1, old[2] + nc[1], old[3] + nc[2], old[4] + nc[3],
                old[5] + nc[4]>>
     ELSE nets[k]]

\* d[key] assigned the counts of the request instead of the sum
AddRequestOverwrite(d, key, lineCount, errorCount) ==
  Store(d, key, <<1, lineCount, errorCount>>)

\* (count + 1, lines + lineCount, error + errorCount) on d[key]
AddRequest(d, key, lineCount, errorCount) ==
  LET old == ValueOrDefault(d, key, <<0, 0, 0>>)
  IN  Store(d, key, <<old[1] + 1, old[2] + lineCount, old[3] + errorCount>>)

\* the request entered in errors whatever its error count is
CountErrorsOfEveryRequest(errors, rid, errorCount) ==
  Store(errors, rid, ValueOrDefault(errors, rid, 0) + errorCount)

\* lines 1066-1069
CountErrors(errors, rid, errorCount) ==
  IF errorCount > 0
  THEN Store(errors, rid, ValueOrDefault(errors, rid, 0) + errorCount)
  ELSE errors

\* the body of the loop of lines 967-1074 for one request; row is the
\* record of the request in the database
SummariseRequest(rep, exportMode, request, row) ==
  LET user       == request.userID
      loadStatus == Len(request.slines) = 0
      slines     == IF loadStatus THEN row.slines ELSE request.slines
      loadLines  == /\ exportMode /\ Upper(request.type) = "WAVEFORM"
                    /\ Len(request.rlines) = 0
      rlines     == IF loadLines THEN row.rlines ELSE request.rlines
      w0         == [rep |-> rep, volume_error |-> EmptyDict,
                     netcounts |-> EmptyDict]
      w          == LineLoop(StatusLoop(w0, user, slines), rlines)
      lineCount  == request.total
      errorCount == request.total - request.ok
      u          == ValueOrDefault(w.rep.users, user, <<0, 0, 0, 0>>)
      userIP     == IF request.userIP = "" THEN "unknown" ELSE request.userIP
      clientIP   == IF request.clientIP = "" THEN "unknown"
                    ELSE request.clientIP
  IN  [report |->
         [w.rep EXCEPT
            !.nets      = MergeNetcounts(@, w.netcounts),
            !.users     = Store(@, user, <<u[1] + 1, u[2] + lineCount,
                                           u[3] + errorCount, u[4]>>),
            !.userIPs   = AddRequest(@, userIP, lineCount, errorCount),
            !.clientIPs = AddRequest(@, clientIP, lineCount, errorCount),
            !.rtypes    = AddRequest(@, request.type, lineCount, errorCount),
            !.errors    = CountErrors(@, request.id, errorCount),
            !.total     = @ + lineCount,
            !.timeMin   = IF request.created < @ THEN request.created ELSE @,
            !.timeMax   = IF request.created > @ THEN request.created ELSE @],
       request    |-> [request EXCEPT !.slines = slines, !.rlines = rlines],
       loadStatus |-> loadStatus,
       loadLines  |-> loadLines]

\* the loop of lines 967-1074 over the requests still to visit, from
\* st = [report, requests, statusLoaded, linesLoaded]
RECURSIVE SummariseLoop(_, _, _, _)
SummariseLoop(st, exportMode, requests, db) ==
  IF requests = <<>> THEN st
  ELSE
    LET request == Head(requests)
    IN  TheOne(
          { SummariseLoop(
              [report       |-> r.report,
               requests     |-> Append(st.requests, r.request),
               statusLoaded |-> IF r.loadStatus
                                THEN st.statusLoaded \cup {request.id}
                                ELSE st.statusLoaded,
               linesLoaded  |-> IF r.loadLines
                                THEN st.linesLoaded \cup {request.id}
                                ELSE st.linesLoaded],
              exportMode, Tail(requests), db) :
            r \in { SummariseRequest(st.report, exportMode, request,
                                     db[request.id]) } })

\* WebReqLog.printRequestSummary(out, session, requests), up to line 1074
Summarise(exportMode, requests, db, start, end) ==
  SummariseLoop([report |-> EmptyReport(start, end), requests |-> <<>>,
                 statusLoaded |-> {}, linesLoaded |-> {}],
                exportMode, requests, db)

\* no summary is part of the run
SummaryIdle ==
  /\ export = FALSE /\ startTime = BaseHour /\ endTime = BaseHour
  /\ report = EmptyReport(BaseHour, BaseHour)

\* ------------------------------------------------ inputs of loadRequests
ArgSets ==
  [restricted : {Absent, "no", "yes"},
   onlyErrors : {Absent, "true"},
   lines      : {Absent, "true"},
   volume     : {Absent, "vol-A"},
   message    : {Absent, "no%20data"},
   userIP     : {Absent, "", "unknown", "10.0.0.1"},
   clientIP   : {Absent, "unknown"},
   streamID   : { <<"">>, <<"GE", "*", "*", "*">> },
   requestID  : {Absent}]

NoArgs ==
  [restricted |-> Absent, onlyErrors |-> Absent, lines |-> Absent,
   volume |-> Absent, message |-> Absent, userIP |-> Absent,
   clientIP |-> Absent, streamID |-> <<"">>, requestID |-> Absent]

ArgNames == DOMAIN NoArgs

\* the query strings that give at most one criterion
OneCriterionArgs ==
  { a \in ArgSets : Cardinality({ k \in ArgNames : a[k] # NoArgs[k] }) <= 1 }

StatusLineLists ==
  LET a == [volumeID |-> "vol-A", status |-> "OK", message |-> "", size |-> 3]
      b == [volumeID |-> "vol-B", status |-> "ERROR", message |-> "no data",
            size |-> 5]
  IN  { <<>>, <<a>>, <<b>>, <<a, b>> }

RequestLineLists ==
  LET ge == [net |-> "GE", sta |-> "APE", loc |-> "", cha |-> "BHZ",
             restricted |-> FALSE, status |-> "OK", volumeID |-> "vol-A",
             message |-> "", start |-> BaseHour * 225,
             end |-> (BaseHour + 2) * 225]
      ii == [net |-> "II", sta |-> "KDAK", loc |-> "00", cha |-> "BHZ",
             restricted |-> TRUE, status |-> "ERROR", volumeID |-> "vol-B",
             message |-> "no data", start |-> (BaseHour + 2) * 225,
             end |-> BaseHour * 225]
      \* a time window of 2**32 seconds, from the epoch on
      eon == [net |-> "GE", sta |-> "APE", loc |-> "", cha |-> "LHZ",
              restricted |-> FALSE, status |-> "OK", volumeID |-> "vol-A",
              message |-> "", start |-> 0, end |-> 268435456]
  IN  { <<>>, <<ge, ii>>, <<eon>> }

\* the records of the database, without their id
Records ==
  { [userIP |-> ip[1], clientIP |-> ip[2], status |-> st, hasSummary |-> TRUE,
     total |-> su[1], ok |-> su[2], averageTimeWindow |-> <<1, 1>>,
     slines |-> sl, rlines |-> rl] :
      ip \in { <<"", "">>, <<"10.0.0.1", "10.0.0.2">> },
      st \in { "END", "PROCESSING" },
      su \in { <<1, 1>>, <<2, 1>> },
      sl \in StatusLineLists, rl \in RequestLineLists }
  \cup
  { [userIP |-> "", clientIP |-> "", status |-> "PROCESSING",
     hasSummary |-> FALSE, total |-> 0, ok |-> 0,
     averageTimeWindow |-> <<0, 1>>, slines |-> <<>>, rlines |-> <<>>] }

\* the records a query of several records is made of
SeqRecords ==
  { r \in Records : Len(r.rlines) = 2 /\ Len(r.slines) <= 1 }
  \cup { r \in Records : ~r.hasSummary }

\* the record r as the i-th record of the query
WithId(r, i) == r @@ [id |-> i]

RECURSIVE RecordLists(_, _)
RecordLists(records, n) ==
  IF n = 0 THEN { <<>> }
  ELSE { Append(l, WithId(r, n)) : l \in RecordLists(records, n - 1), r \in records }

\* no Counter is part of the run
CounterIdle ==
  /\ cpc = "off" /\ counter = EmptyCounter
  /\ cstart = BaseHour /\ cend = BaseHour /\ accumulated = <<>>

SelectInit ==
  /\ CounterIdle
  /\ \/ /\ args \in ArgSets
        /\ stored \in RecordLists(Records, 0) \cup RecordLists(Records, 1)
     \/ /\ args \in OneCriterionArgs
        /\ \E n \in 2 .. MaxReqs : stored \in RecordLists(SeqRecords, n)
  /\ cb \in BOOLEAN
  /\ spc = "call"
  /\ selection = <<>>
  /\ emitted = <<>>
  /\ statusLoaded = {}
  /\ linesLoaded = {}
  /\ failure = NoFailure
  /\ SummaryIdle

\* requests = self.loadRequests(session) / self.loadRequests(session, counter)
LoadRequests ==
  /\ spc = "call"
  /\ LET r == LoadRequestsResult(args, cb, stored)
     IN  /\ spc' = r.result
         /\ selection' = r.selection
         /\ emitted' = r.emitted
         /\ statusLoaded' = r.statusLoaded
         /\ linesLoaded' = r.linesLoaded
  /\ UNCHANGED <<args, cb, stored, failure>>
  /\ UNCHANGED <<cvars, avars>>

SelectNext == LoadRequests

SpecSelect == SelectInit /\ [][SelectNext]_vars

\* ------------------------------------------- properties of loadRequests
Done == spc \in {"returned", "raised", "failed"}

\* the requests loadRequests returned or gave to the callback
Outputs ==
  { selection[i] : i \in DOMAIN selection } \cup { emitted[i] : i \in DOMAIN emitted }

OutIds == { p.id : p \in Outputs }

\* the records of the query that loadRequests visits
Candidates == { stored[i] : i \in { j \in DOMAIN stored : stored[j].hasSummary } }

\* only the criterion k is given, with value v
OnlyGiven(k, v) == args = [NoArgs EXCEPT ![k] = v]

\* C7 as stated: with userIP (clientIP) specified every request returned or
\* given to the callback has that userIP (clientIP), and a record failing
\* a comparison has none of its sub-lines loaded.
C7_OutputsHaveCriterionIP ==
  Done =>
    /\ \A p \in Outputs :
          /\ args.userIP # Absent => p.userIP = args.userIP
          /\ args.clientIP # Absent => p.clientIP = args.clientIP
    /\ \A r \in Candidates :
          (\/ args.userIP # Absent /\ r.userIP # args.userIP
           \/ args.clientIP # Absent /\ r.clientIP # args.clientIP)
          => r.id \notin statusLoaded \cup linesLoaded

\* the IP a given criterion stands for: "unknown" names the empty IP
CriterionIP(v) == IF v = "unknown" THEN "" ELSE v

\* C7 amended: with a non-empty userIP (clientIP) specified, every request
\* returned or given to the callback has the userIP (clientIP) the criterion
\* stands for, "unknown" standing for the empty IP; a record failing either
\* comparison is rejected and none of its sub-lines is loaded.
C7_OutputsHaveNormalisedIP ==
  Done =>
    /\ \A p \in Outputs :
          /\ (args.userIP \notin {Absent, ""}) => p.userIP = CriterionIP(args.userIP)
          /\ (args.clientIP \notin {Absent, ""}) => p.clientIP = CriterionIP(args.clientIP)
    /\ \A r \in Candidates :
          (\/ args.userIP \notin {Absent, ""} /\ r.userIP # CriterionIP(args.userIP)
           \/ args.clientIP \notin {Absent, ""} /\ r.clientIP # CriterionIP(args.clientIP))
          => r.id \notin (statusLoaded \cup linesLoaded \cup OutIds)

\* two records, the first with another userIP than the criterion: it is
\* rejected unloaded, the second is accepted
C7_Witness ==
  /\ spc = "returned"
  /\ args.userIP = "unknown"
  /\ Len(stored) = 2
  /\ stored[1].userIP # "" /\ stored[1].slines # <<>>
  /\ OutIds = {2}
  /\ statusLoaded = {2}

\* C8 as stated: with onlyErrors and no other criterion, a request with
\* status END and reqErrors = 0 is not selected and one with reqErrors > 0
\* is selected, whatever their status lines are.
C8_OnlyErrorsDecidesByReqErrors ==
  (Done /\ OnlyGiven("onlyErrors", "true")) =>
     \A r \in Candidates :
        r.status = "END" =>
           /\ r.total - r.ok = 0 => r.id \notin OutIds
           /\ r.total - r.ok > 0 => r.id \in OutIds

\* C9: with only volume given, a request without a status line of that
\* volume (also one without status lines) is neither given to the callback
\* nor returned.
C9_VolumeOnlyRejects ==
  (Done /\ \E v \in {"vol-A", "vol-B"} : OnlyGiven("volume", v)) =>
     \A r \in Candidates :
        (\A i \in DOMAIN r.slines : r.slines[i].volumeID # args.volume)
        => r.id \notin OutIds

\* a request whose only status line is of another volume and a request
\* without status lines, neither of them selected
C9_Witness ==
  /\ spc = "returned" /\ OnlyGiven("volume", "vol-A")
  /\ Len(stored) = 2
  /\ Len(stored[1].slines) = 1 /\ stored[1].slines[1].volumeID = "vol-B"
  /\ stored[1].status # "END"
  /\ stored[2].slines = <<>> /\ stored[2].hasSummary
  /\ Outputs = {}
  /\ statusLoaded = {1, 2}

\* the request lines of r of network GE
LinesOfGE(r) == SelectSeq(r.rlines, LAMBDA l : l.net = "GE")

StreamOnly == OnlyGiven("streamID", <<"GE", "*", "*", "*">>)

\* C10 as stated: with only the stream pattern network = GE given, the
\* projection of a request holds exactly its request lines of network GE
\* and its summary totalLineCount is their number.
C10_ProjectionHoldsMatchingLines ==
  (Done /\ StreamOnly) =>
     \A p \in Outputs :
        LET r == stored[p.id]
        IN  LinesOfGE(r) # <<>> =>
               /\ p.rlines = LinesOfGE(r)
               /\ p.total = Len(LinesOfGE(r))

\* C10 amended: with only a stream pattern given, request lines are not
\* evaluated: no request line is loaded, a request returned or given to the
\* callback carries no request line and keeps its stored summary, and
\* without a callback every candidate is returned.
C10_StreamOnlyLeavesLines ==
  (Done /\ StreamOnly) =>
     /\ linesLoaded = {}
     /\ \A p \in Outputs :
           /\ p.rlines = <<>>
           /\ p.total = stored[p.id].total /\ p.ok = stored[p.id].ok
     /\ ~cb => (spc = "returned" /\ OutIds = { r.id : r \in Candidates })

\* a request with a GE and an II line is returned with the total of both
C10_Witness ==
  /\ spc = "returned" /\ StreamOnly
  /\ \E p \in Outputs :
        /\ Len(stored[p.id].rlines) = 2
        /\ Len(LinesOfGE(stored[p.id])) = 1
        /\ p.total = 2
        /\ stored[p.id].slines # <<>>

\* the criteria a status line of a projection has to satisfy
SatisfiesStatusCriteria(sl) ==
  /\ args.volume \notin {Absent, ""} => sl.volumeID = args.volume
  /\ args.message \notin {Absent, ""} => sl.message = "no data"
  /\ args.onlyErrors \notin {Absent, ""} => sl.status # "OK"

\* the criteria a request line of a projection has to satisfy
SatisfiesLineCriteria(l) ==
  /\ args.volume \notin {Absent, ""} => l.volumeID = args.volume
  /\ args.message \notin {Absent, ""} => l.message = "no data"
  /\ args.onlyErrors \notin {Absent, ""} => l.status # "OK"
  /\ args.streamID = <<"GE", "*", "*", "*">> => l.net = "GE"
  /\ args.restricted = "yes" => l.restricted
  /\ args.restricted = "no" => ~l.restricted

\* C11: every request returned or given to the callback carries only
\* matched sub-lines: each of its status lines satisfies the volume, message
\* and onlyErrors criteria, each of its request lines also the stream
\* pattern and the restricted criterion, and a sub-line of the record that
\* does not satisfy them is no part of it.
C11_ProjectionsHoldOnlyMatchedLines ==
  Done =>
    \A p \in Outputs :
       LET r == stored[p.id]
       IN  /\ \A i \in DOMAIN p.slines : SatisfiesStatusCriteria(p.slines[i])
           /\ \A i \in DOMAIN p.rlines : SatisfiesLineCriteria(p.rlines[i])
           /\ \A i \in DOMAIN r.slines :
                 ~SatisfiesStatusCriteria(r.slines[i])
                 => \A j \in DOMAIN p.slines : p.slines[j] # r.slines[i]
           /\ \A i \in DOMAIN r.rlines :
                 ~SatisfiesLineCriteria(r.rlines[i])
                 => \A j \in DOMAIN p.rlines : p.rlines[j] # r.rlines[i]

\* a request in progress whose only status line is OK, selected by
\* onlyErrors: its projection is returned without that status line
C11_Witness ==
  /\ spc = "returned" /\ OnlyGiven("onlyErrors", "true") /\ ~cb
  /\ Len(stored) = 1
  /\ stored[1].status = "PROCESSING"
  /\ Len(stored[1].slines) = 1 /\ stored[1].slines[1].status = "OK"
  /\ stored[1].rlines # <<>>
  /\ Len(selection) = 1
  /\ selection[1].slines = <<>> /\ selection[1].rlines = <<>>

\* the ids of a sequence of requests, in order
Ids(requests) == [i \in DOMAIN requests |-> requests[i].id]

\* C12 as stated: for the same records and the same criteria, the empty
\* criteria included, the ids given to the callback in streaming mode are, in
\* order, the ids of the list returned in collect mode.
C12_CallbackAndListAcceptSameIds ==
  Done =>
    Ids(LoadRequestsResult(args, TRUE, stored).emitted)
      = Ids(LoadRequestsResult(args, FALSE, stored).selection)

\* end - start of a request line in ticks, a negative one taken as 0
ClampedDuration(l) == IF l.end - l.start > 0 THEN l.end - l.start ELSE 0

RECURSIVE ClampedSum(_)
ClampedSum(lines) ==
  IF lines = <<>> THEN 0
  ELSE ClampedDuration(Head(lines)) + ClampedSum(Tail(lines))

\* the request lines of r that match when only lines or only restricted
\* is given
MatchedLines(r) ==
  IF args.restricted = "no" THEN SelectSeq(r.rlines, LAMBDA l : ~l.restricted)
  ELSE IF args.restricted = "yes" THEN SelectSeq(r.rlines, LAMBDA l : l.restricted)
  ELSE r.rlines

\* the mean time window of the lines is above 2^32 - 1 seconds: with n < 16
\* lines of whole ticks, 16 * sum > (2^32 - 1) * n iff sum >= 2^28 * n
MeanExceedsUnsigned32(lines) ==
  lines # <<>> /\ ClampedSum(lines) >= 268435456 * Len(lines)

LinesEvaluated ==
  \/ OnlyGiven("lines", "true")
  \/ OnlyGiven("restricted", "no") \/ OnlyGiven("restricted", "yes")

\* C13 as stated: when request lines are evaluated, a request with a matched
\* line is returned or given to the callback, and the summary of a
\* projection has totalLineCount = the number of matched lines, okLineCount
\* = the number of matched lines with status OK and averageTimeWindow = the
\* sum of max(end - start, 0) over the matched lines divided by their
\* number, 0 when no line matched.
C13_DerivedSummaryOfMatchedLines ==
  (Done /\ LinesEvaluated) =>
    \A r \in Candidates :
       LET matched == MatchedLines(r)
           n       == Len(matched)
       IN  ~MeanExceedsUnsigned32(matched) =>
             /\ n > 0 => r.id \in OutIds
             /\ \A p \in Outputs :
                  p.id = r.id =>
                    /\ p.total = n
                    /\ p.ok = Len(SelectSeq(matched, LAMBDA l : l.status = "OK"))
                    /\ p.averageTimeWindow =
                         IF n = 0 THEN <<0, 1>> ELSE <<ClampedSum(matched), n>>

\* C14 as stated: when request lines are evaluated, selection does not
\* raise, and the averageTimeWindow of a projection is the sentinel -1
\* exactly when the mean of its matched lines is above 2^32 - 1 seconds, a
\* mean of exactly 2^32 seconds included.
C14_SentinelIffMeanExceedsUnsigned32 ==
  (Done /\ LinesEvaluated) =>
    \A r \in Candidates :
       LET matched == MatchedLines(r)
       IN  matched # <<>> =>
             /\ spc = "returned"
             /\ \E p \in Outputs :
                  /\ p.id = r.id
                  /\ (p.averageTimeWindow = <<-1, 1>>)
                       <=> MeanExceedsUnsigned32(matched)

\* the records of the query whose summary() raises
Unfinished == { stored[i] : i \in { j \in DOMAIN stored : ~stored[j].hasSummary } }

\* the request r passes the decision rule of the selection with a summary
\* of zeros, i.e. with reqErrors = 0
AcceptedWithZeroErrors(r) ==
  IF NoSelection(args, cb) THEN TRUE
  ELSE Evaluate(args, [r EXCEPT !.total = 0, !.ok = 0]).kind = "accept"

\* C21 as stated: a record whose summary is unavailable does not make the
\* selection fail, and it is returned or given to the callback exactly when
\* the decision rule accepts it with reqErrors = 0.
C21_UnfinishedEvaluatedWithZeroErrors ==
  (Done /\ spc = "returned") =>
    \A r \in Unfinished : (r.id \in OutIds) <=> AcceptedWithZeroErrors(r)

\* C21 amended: a record whose summary is unavailable is left out of the
\* candidates before the selection: it is never returned or given to the
\* callback, none of its sub-lines is loaded, and a query of such records
\* only returns normally with no request.
C21_UnfinishedAreLeftOut ==
  Done =>
    /\ \A r \in Unfinished :
         /\ r.id \notin OutIds
         /\ r.id \notin statusLoaded \cup linesLoaded
    /\ (Candidates = {}) => (spc = "returned" /\ Outputs = {})

\* a record without summary and with empty userIP next to a finished one
\* with empty userIP: userIP=unknown returns the finished one only
C21_Witness ==
  /\ spc = "returned"
  /\ OnlyGiven("userIP", "unknown")
  /\ \E r \in Unfinished : r.userIP = ""
  /\ \E r \in Candidates : r.userIP = "" /\ r.id \in OutIds

\* request lines are looked at: lines is given or restricted is yes or no
WantsLines ==
  args.lines \notin {Absent, ""} \/ args.restricted \in {"no", "yes"}

\* a status line of the record r satisfies the criteria
SomeStatusLineMatches(r) ==
  \E i \in DOMAIN r.slines : SatisfiesStatusCriteria(r.slines[i])

\* request lines are looked at and one of the record r satisfies the criteria
SomeRequestLineMatches(r) ==
  WantsLines /\ \E i \in DOMAIN r.rlines : SatisfiesLineCriteria(r.rlines[i])

\* C22 as stated: with volume or message given together with onlyErrors, a
\* request is returned or given to the callback only if one of its status
\* lines or request lines matched; its status or its reqErrors alone do
\* not make it accepted.
C22_FinerCriteriaOverrideErrorStatus ==
  (Done /\ args.onlyErrors \notin {Absent, ""}
        /\ (args.volume \notin {Absent, ""} \/ args.message \notin {Absent, ""})) =>
    \A p \in Outputs :
       SomeStatusLineMatches(stored[p.id]) \/ SomeRequestLineMatches(stored[p.id])

\* restricted is given, or a stream pattern together with lines, and none
\* of volume, message and onlyErrors
LineCriteriaOnly ==
  /\ \/ args.restricted \in {"no", "yes"}
     \/ args.lines \notin {Absent, ""} /\ args.streamID = <<"GE", "*", "*", "*">>
  /\ args.volume \in {Absent, ""}
  /\ args.message \in {Absent, ""}
  /\ args.onlyErrors \in {Absent, ""}

FailsIPComparison(r) ==
  \/ args.userIP # Absent /\ CriterionIP(args.userIP) # r.userIP
  \/ args.clientIP # Absent /\ CriterionIP(args.clientIP) # r.clientIP

\* C24: request lines are loaded only when lines is given or restricted is
\* yes or no: for every other criteria the request lines of no candidate
\* are loaded; and a record that fails the userIP or clientIP comparison has
\* neither its status lines nor its request lines loaded.
C24_RequestLinesLoadedOnlyWhenWanted ==
  Done =>
    /\ ~WantsLines => linesLoaded = {}
    /\ \A r \in Candidates :
         FailsIPComparison(r) => r.id \notin statusLoaded \cup linesLoaded

\* userIP=10.0.0.1 and two requests with request lines: the first, with
\* status lines, fails the comparison and nothing of it is loaded; the
\* status lines of the second are loaded, its request lines are not
C24_Witness ==
  /\ spc = "returned" /\ OnlyGiven("userIP", "10.0.0.1")
  /\ Len(stored) = 2
  /\ stored[1].hasSummary /\ stored[1].userIP = ""
  /\ stored[1].slines # <<>> /\ stored[1].rlines # <<>>
  /\ stored[2].hasSummary /\ stored[2].rlines # <<>>
  /\ statusLoaded = {2}
  /\ linesLoaded = {}

\* ------------------------------------- loadRequests on a failing database
\* the records of the queries the database fails in
StoreRecords ==
  { r \in SeqRecords :
      Len(r.rlines) = 2 /\ r.status = "END" /\ r.total - r.ok = 1 }

\* the loads that can fail: one load of one record of the query
Failures(records) ==
  { [kind |-> k, id |-> i] : k \in {"status", "lines"}, i \in DOMAIN records }

StoreInit ==
  /\ CounterIdle
  /\ SummaryIdle
  /\ args \in OneCriterionArgs
  /\ \E n \in 1 .. MaxReqs : stored \in RecordLists(StoreRecords, n)
  /\ failure \in Failures(stored)
  /\ cb \in BOOLEAN
  /\ spc = "call"
  /\ selection = <<>>
  /\ emitted = <<>>
  /\ statusLoaded = {}
  /\ linesLoaded = {}

SpecStore == StoreInit /\ [][SelectNext]_vars

\* C20: an exception of the database while the status lines or request
\* lines of a record are loaded leaves loadRequests: the load of the first
\* record evaluated, when it fails, ends the call with that exception; no
\* later record is loaded, returned or given to the callback, no list is
\* returned, and the failed load is not repeated.
C20_StoreFailureAbortsSelection ==
  /\ (/\ Done /\ failure = [kind |-> "status", id |-> 1]
      /\ ~NoSelection(args, cb)
      /\ args.userIP = Absent /\ args.clientIP = Absent) => spc = "failed"
  /\ spc = "failed" =>
        /\ selection = <<>>
        /\ failure.id \notin OutIds
        /\ \A i \in DOMAIN stored :
              i > failure.id => i \notin (statusLoaded \cup linesLoaded \cup OutIds)
        /\ failure.kind = "status" => failure.id \notin statusLoaded
        /\ failure.kind = "lines" => failure.id \notin linesLoaded

\* collect mode with userIP as criterion: the first record is accepted, the
\* status lines of the second cannot be loaded; no list is returned
C20_Witness ==
  /\ spc = "failed" /\ ~cb
  /\ Len(stored) = 2
  /\ failure = [kind |-> "status", id |-> 2]
  /\ OnlyGiven("userIP", "10.0.0.1")
  /\ stored[1].userIP = "10.0.0.1" /\ stored[1].slines = <<>>
  /\ statusLoaded = {1}
  /\ selection = <<>>

\* ---------------------------------------------------- WebReqLog.wwwSummary
\* the time range of the report
ReportStart == BaseHour + GridStep

ReportEnd == BaseHour + 3 * GridStep

\* the query strings of the summary page: no criterion, the empty userIP
\* or clientIP, the requests with errors, or the lookup of one request by
\* its id
SummaryArgs ==
  { NoArgs,
    [NoArgs EXCEPT !.userIP = "unknown"],
    [NoArgs EXCEPT !.onlyErrors = "true"],
    [NoArgs EXCEPT !.clientIP = "unknown"],
    [NoArgs EXCEPT !.requestID = "17"] }

\* the records of the database the summary is made of, without their id:
\* requests with status lines and request lines, created inside the range,
\* and requests without sub-lines, created at any grid point
SummaryRecords ==
  LET okA  == [volumeID |-> "vol-A", status |-> "OK", message |-> "",
               size |-> 3]
      errA == [volumeID |-> "vol-A", status |-> "ERROR",
               message |-> "no data", size |-> 5]
      errB == [volumeID |-> "vol-B", status |-> "ERROR",
               message |-> "no data", size |-> 5]
      line(net, sta, st, vol, msg, size, start) ==
        [net |-> net, sta |-> sta, loc |-> "", cha |-> "BHZ",
         restricted |-> FALSE, status |-> st, volumeID |-> vol,
         message |-> msg, size |-> size,
         start |-> start * 225, end |-> (start + 2) * 225]
      iu   == line("IU", "ANMO", "OK", "vol-A", "", 7, BaseHour)
      xx20 == line("XX", "S1", "OK", "vol-C", "", 4, BaseHour)
      xx21 == line("XX", "S1", "NODATA", "vol-A", "no data", 0,
                   BaseHour + 366 * HoursPerDay)
      xxe  == line("XX", "S2", "ERROR", "vol-A", "no data", 9, BaseHour)
      rec(who, su, created, sl, rl) ==
        [userID |-> who[1], userIP |-> who[2], clientIP |-> who[3],
         type |-> who[4], status |-> "END", hasSummary |-> TRUE,
         total |-> su[1], ok |-> su[2], averageTimeWindow |-> <<1, 1>>,
         created |-> created, slines |-> sl, rlines |-> rl]
      alice  == <<"alice", "", "", "WAVEFORM">>
      bob    == <<"bob", "10.0.0.1", "10.0.0.2", "ROUTING">>
      carol  == <<"carol", "10.0.0.1", "", "waveform">>
      inside == BaseHour + 2 * GridStep
  IN  { rec(alice, <<2, 2>>, inside, <<okA>>, <<iu, xx21>>),
        rec(alice, <<2, 1>>, inside, <<errA, okA>>, <<iu, xx20>>),
        rec(alice, <<2, 0>>, inside, <<okA, errA>>, <<iu, xxe>>),
        rec(bob, <<1, 1>>, inside, <<>>, <<iu>>),
        rec(bob, <<2, 1>>, inside, <<okA>>, <<iu, xxe>>),
        rec(carol, <<2, 1>>, inside, <<errB>>, <<xx20, xx21>>) }
      \cup
      { rec(who, su, created, <<>>, <<>>) :
          who \in {alice, bob},
          su \in { <<1, 1>>, <<3, 1>>, <<1, 2>> },
          created \in Times }

SummaryInit ==
  /\ CounterIdle
  /\ export \in BOOLEAN
  /\ args \in (IF export THEN {NoArgs} ELSE SummaryArgs)
  /\ startTime = ReportStart
  /\ endTime = ReportEnd
  /\ \E n \in 0 .. MaxReqs : stored \in RecordLists(SummaryRecords, n)
  /\ IF args.requestID # Absent
     THEN Len(stored) <= 1
     ELSE \A i \in DOMAIN stored :
             startTime <= stored[i].created /\ stored[i].created <= endTime
  /\ cb = FALSE
  /\ spc = "call"
  /\ selection = <<>>
  /\ emitted = <<>>
  /\ statusLoaded = {}
  /\ linesLoaded = {}
  /\ failure = NoFailure
  /\ report = EmptyReport(startTime, endTime)

\* self.printRequestSummary(out, session, requests)
PrintRequestSummary ==
  /\ spc = "returned"
  /\ LET r == Summarise(export, selection, stored, startTime, endTime)
     IN  /\ report' = r.report
         /\ selection' = r.requests
         /\ statusLoaded' = statusLoaded \cup r.statusLoaded
         /\ linesLoaded' = linesLoaded \cup r.linesLoaded
  /\ spc' = "printed"
  /\ UNCHANGED <<args, cb, stored, emitted, failure>>
  /\ UNCHANGED <<export, startTime, endTime>>
  /\ UNCHANGED cvars

\* lines 892-903 of wwwSummary: the list is emptied
ReleaseRequests ==
  /\ spc = "printed"
  /\ spc' = "done"
  /\ selection' = <<>>
  /\ UNCHANGED <<args, cb, stored, emitted, statusLoaded, linesLoaded, failure>>
  /\ UNCHANGED <<cvars, avars>>

SummaryNext == LoadRequests \/ PrintRequestSummary \/ ReleaseRequests

SpecSummary == SummaryInit /\ [][SummaryNext]_vars

\* ---------------------------------------- properties of printRequestSummary
Printed == spc = "printed"

\* the aggregated requests, with the sub-lines the summary went through
Aggregated == { selection[i] : i \in DOMAIN selection }

\* the byNetwork key of a request line whose start lies in 2020 or 2021;
\* 2021-01-01 00:00 is hour 447072
ExpectedNetworkKey(l) ==
  IF l.net \in {"XX", "YW", "ZE"}
  THEN <<l.net, "/", IF l.start < 447072 * 225 THEN 2020 ELSE 2021>>
  ELSE <<l.net>>

ExpectedNetworkKeys(p) ==
  { ExpectedNetworkKey(p.rlines[i]) : i \in DOMAIN p.rlines }

\* the number of request lines of the requests that have the key k
RECURSIVE LinesOfKey(_, _)
LinesOfKey(requests, k) ==
  IF requests = <<>> THEN 0
  ELSE Len(SelectSeq(Head(requests).rlines,
                     LAMBDA l : ExpectedNetworkKey(l) = k))
       + LinesOfKey(Tail(requests), k)

\* C15: in nets (byNetwork) a request line of a network code starting with
\* X, Y or Z is counted under "<code>/<year of its start>" and any other
\* line under its network code; the requestCount of a key is the number of
\* aggregated requests with a line of that key, its lineCount the number of
\* these lines.
C15_NetworkKeysAndRequestCounts ==
  Printed =>
    /\ DOMAIN report.nets = UNION { ExpectedNetworkKeys(p) : p \in Aggregated }
    /\ \A k \in DOMAIN report.nets :
          /\ report.nets[k][1]
               = Cardinality({ p \in Aggregated : k \in ExpectedNetworkKeys(p) })
          /\ report.nets[k][2] = LinesOfKey(selection, k)

\* an exported report of two requests: IU is counted once, XX of 2020 in
\* both requests, XX of 2021 in one
C15_Witness ==
  /\ Printed /\ export /\ Len(selection) = 2
  /\ DOMAIN report.nets = { <<"IU">>, <<"XX", "/", 2020>>, <<"XX", "/", 2021>> }
  /\ report.nets[<<"IU">>][1] = 1
  /\ report.nets[<<"XX", "/", 2020>>][1] = 2
  /\ report.nets[<<"XX", "/", 2021>>][1] = 1

\* the request p has an ERROR status line of the volume v
HasErrorLine(p, v) ==
  \E i \in DOMAIN p.slines :
     p.slines[i].volumeID = v /\ p.slines[i].status = "ERROR"

\* the most bytes the status lines of the volume v may add to byVolume:
\* nothing for an ERROR line
RECURSIVE VolumeBytesBound(_, _)
VolumeBytesBound(slines, v) ==
  IF slines = <<>> THEN 0
  ELSE (IF Head(slines).volumeID = v /\ Head(slines).status # "ERROR"
        THEN Head(slines).size ELSE 0)
       + VolumeBytesBound(Tail(slines), v)

\* the most bytes the request lines of p may add to the station key k:
\* nothing for a line of a volume that has an ERROR status line in p
RECURSIVE StationBytesBound(_, _, _)
StationBytesBound(p, rlines, k) ==
  IF rlines = <<>> THEN 0
  ELSE (IF <<Head(rlines).net, ".", Head(rlines).sta>> = k
           /\ ~HasErrorLine(p, Head(rlines).volumeID)
        THEN Head(rlines).size ELSE 0)
       + StationBytesBound(p, Tail(rlines), k)

RECURSIVE SumOverRequests(_, _, _)
SumOverRequests(requests, k, byStation) ==
  IF requests = <<>> THEN 0
  ELSE (IF byStation
        THEN StationBytesBound(Head(requests), Head(requests).rlines, k)
        ELSE VolumeBytesBound(Head(requests).slines, k))
       + SumOverRequests(Tail(requests), k, byStation)

\* C16 as stated: an ERROR status line adds no bytes to its volume in
\* volumes (byVolume), and a request line of a volume for which the request
\* has an ERROR status line adds no bytes to streams (byStation), also when
\* several status lines of the request have that volumeID.
C16_ErrorVolumesAddNoBytes ==
  Printed =>
    /\ \A v \in DOMAIN report.volumes :
          report.volumes[v][3] <= SumOverRequests(selection, v, FALSE)
    /\ \A k \in DOMAIN report.streams :
          report.streams[k][4] <= SumOverRequests(selection, k, TRUE)

\* the report of all the candidates, what the summary without criteria shows
ReportOfCandidates ==
  Summarise(export, Unloaded(Finished(stored)), stored, startTime, endTime).report

\* the requestCount of the key "unknown" in a rollup by IP
UnknownCount(d) == ValueOrDefault(d, "unknown", <<0, 0, 0>>)[1]

\* C17 as stated: the aggregation counts the requests with an empty userIP
\* (clientIP) under "unknown", and the selection with userIP = "unknown"
\* (clientIP = "unknown") as only criterion returns exactly the candidates
\* with an empty userIP (clientIP): as many as the category counts.
C17_UnknownCategoryIsTheEmptyIPSelection ==
  /\ (OnlyGiven("userIP", "unknown") /\ spc \in {"raised", "printed"}) =>
        /\ spc = "printed"
        /\ { p.id : p \in Aggregated } = { r.id : r \in { c \in Candidates : c.userIP = "" } }
        /\ UnknownCount(ReportOfCandidates.userIPs) = Len(selection)
  /\ (OnlyGiven("clientIP", "unknown") /\ spc \in {"raised", "printed"}) =>
        /\ spc = "printed"
        /\ { p.id : p \in Aggregated } = { r.id : r \in { c \in Candidates : c.clientIP = "" } }
        /\ UnknownCount(ReportOfCandidates.clientIPs) = Len(selection)

\* the sum of the values of a dictionary of numbers
RECURSIVE SumValues(_)
SumValues(d) ==
  IF DOMAIN d = {} THEN 0
  ELSE LET k == CHOOSE x \in DOMAIN d : TRUE
       IN  d[k] + SumValues([x \in (DOMAIN d) \ {k} |-> d[x]])

\* the sum of the column c of a dictionary of tuples
SumColumn(d, c) == SumValues([k \in DOMAIN d |-> d[k][c]])

\* totalLineCount - okLineCount of a request
ReqErrors(p) == p.total - p.ok

\* C18: after the aggregation errors (errorRequestIDs) holds exactly the
\* ids of the aggregated requests with totalLineCount - okLineCount > 0,
\* each with that error count; when 0 <= okLineCount <= totalLineCount for
\* every request, the sum of its values is the sum of the error column of
\* users (byUser) and of rtypes (byType).
C18_ErrorRequestIDs ==
  Printed =>
    /\ DOMAIN report.errors = { p.id : p \in { q \in Aggregated : ReqErrors(q) > 0 } }
    /\ \A p \in Aggregated :
          ReqErrors(p) > 0 => report.errors[p.id] = ReqErrors(p)
    /\ (\A p \in Aggregated : 0 <= p.ok /\ p.ok <= p.total) =>
          /\ SumValues(report.errors) = SumColumn(report.users, 3)
          /\ SumValues(report.errors) = SumColumn(report.rtypes, 3)

\* two requests of different users and types, the second with two errors
C18_Witness ==
  /\ Printed /\ Len(selection) = 2
  /\ ReqErrors(selection[1]) = 0 /\ ReqErrors(selection[2]) = 2
  /\ selection[1].userID # selection[2].userID
  /\ DOMAIN report.errors = {2} /\ report.errors[2] = 2
  /\ SumColumn(report.users, 3) = 2 /\ SumColumn(report.rtypes, 3) = 2

\* the smaller (larger) of the creation times of a sequence of requests
RECURSIVE FirstCreated(_)
FirstCreated(requests) ==
  IF Len(requests) = 1 THEN requests[1].created
  ELSE LET rest == FirstCreated(Tail(requests))
       IN  IF requests[1].created < rest THEN requests[1].created ELSE rest

RECURSIVE LastCreated(_)
LastCreated(requests) ==
  IF Len(requests) = 1 THEN requests[1].created
  ELSE LET rest == LastCreated(Tail(requests))
       IN  IF requests[1].created > rest THEN requests[1].created ELSE rest

\* C19 as stated: after the aggregation of a non-empty list timeMin
\* (minCreated) is the earliest and timeMax (maxCreated) the latest creation
\* time of the aggregated requests, also for requests created outside the
\* range from startTime to endTime, as a lookup by request id yields them.
C19_CreatedSpan ==
  (Printed /\ selection # <<>>) =>
     /\ report.timeMin = FirstCreated(selection)
     /\ report.timeMax = LastCreated(selection)

\* the projections loadRequests returned, before the aggregation
Projections == LoadRequestsResult(args, cb, stored).selection

\* C25 as stated: the aggregation of the projections of a selection counts
\* only the status lines the selection placed in each projection: the
\* aggregator leaves the status lines of a projection as they are, and
\* projections without status lines add nothing to volumes (byVolume),
\* messages (byMessage) and the bytes of users (byUser).
C25_AggregatorKeepsProjections ==
  (Printed /\ ~NoSelection(args, cb)) =>
    /\ \A i \in DOMAIN selection : selection[i].slines = Projections[i].slines
    /\ (\A i \in DOMAIN Projections : Projections[i].slines = <<>>) =>
          /\ report.volumes = EmptyDict
          /\ report.messages = EmptyDict
          /\ \A u \in DOMAIN report.users : report.users[u][4] = 0

\* C27: after the aggregation of a list of N requests the requestCount
\* column sums to N in each of users (byUser), rtypes (byType), userIPs and
\* clientIPs, the lineCount column sums in these four rollups to the same
\* number, which is total (totalLineCount), and the lineCount of nets
\* (byNetwork) sums to the lineCount of streams (byStation).
C27_RollupTotalsAgree ==
  Printed =>
    /\ \A d \in {"users", "rtypes", "userIPs", "clientIPs"} :
          /\ SumColumn(report[d], 1) = Len(selection)
          /\ SumColumn(report[d], 2) = report.total
    /\ SumColumn(report.nets, 2) = SumColumn(report.streams, 1)

\* an exported report of two requests of one user and one type, each with
\* request lines and a positive totalLineCount
C27_Witness ==
  /\ Printed /\ export
  /\ Len(selection) = 2
  /\ selection[1].userID = selection[2].userID
  /\ selection[1].type = selection[2].type
  /\ selection[1].rlines # <<>> /\ selection[2].rlines # <<>>
  /\ selection[1].total > 0 /\ selection[2].total > 0
  /\ SumColumn(report.nets, 2) = 4

\* the component-wise sum of two tuples of the same length
TupleSum(x, y) == [i \in DOMAIN x |-> x[i] + y[i]]

\* the key-wise sum of two dictionaries of numbers
SumOfCounts(a, b) ==
  [k \in (DOMAIN a) \cup (DOMAIN b) |->
     ValueOrDefault(a, k, 0) + ValueOrDefault(b, k, 0)]

\* the key-wise, component-wise sum of two dictionaries of tuples of n numbers
SumOfTuples(a, b, n) ==
  LET zero == [i \in 1 .. n |-> 0]
  IN  [k \in (DOMAIN a) \cup (DOMAIN b) |->
         TupleSum(ValueOrDefault(a, k, zero), ValueOrDefault(b, k, zero))]

\* the rollups of a report, without total, timeMin and timeMax
Rollups(rep) ==
  [users |-> rep.users, nets |-> rep.nets, rtypes |-> rep.rtypes,
   volumes |-> rep.volumes, streams |-> rep.streams,
   messages |-> rep.messages, userIPs |-> rep.userIPs,
   clientIPs |-> rep.clientIPs, errors |-> rep.errors]

\* the key-wise sum of the rollups of two reports
SumOfRollups(x, y) ==
  [users     |-> SumOfTuples(x.users, y.users, 4),
   nets      |-> SumOfTuples(x.nets, y.nets, 5),
   rtypes    |-> SumOfTuples(x.rtypes, y.rtypes, 3),
   volumes   |-> SumOfTuples(x.volumes, y.volumes, 3),
   streams   |-> SumOfTuples(x.streams, y.streams, 5),
   messages  |-> SumOfCounts(x.messages, y.messages),
   userIPs   |-> SumOfTuples(x.userIPs, y.userIPs, 3),
   clientIPs |-> SumOfTuples(x.clientIPs, y.clientIPs, 3),
   errors    |-> SumOfCounts(x.errors, y.errors)]

\* the report of the aggregation of a list of requests on its own
ReportOf(requests) ==
  Summarise(export, requests, stored, startTime, endTime).report

RECURSIVE Reversed(_)
Reversed(s) == IF s = <<>> THEN <<>> ELSE Append(Reversed(Tail(s)), Head(s))

\* C28: the aggregation is additive over the list of requests: for every
\* split of the aggregated list into A followed by B the rollups are the
\* key-wise, component-wise sum of the rollups of A and of the rollups of B,
\* and they are the rollups of the list in reverse order.
C28_AggregationIsAdditive ==
  Printed =>
    /\ \A k \in 0 .. Len(Projections) :
          Rollups(report)
            = SumOfRollups(
                Rollups(ReportOf(SubSeq(Projections, 1, k))),
                Rollups(ReportOf(SubSeq(Projections, k + 1, Len(Projections)))))
    /\ Rollups(report) = Rollups(ReportOf(Reversed(Projections)))

\* an exported report of two requests that both have status lines and a
\* request line of network IU: nets counts two requests for IU
C28_Witness ==
  /\ Printed /\ export
  /\ Len(selection) = 2
  /\ selection[1].slines # <<>> /\ selection[2].slines # <<>>
  /\ <<"IU">> \in DOMAIN report.nets
  /\ report.nets[<<"IU">>][1] = 2
  /\ selection[1] # [selection[2] EXCEPT !.id = 1]

\* ------------------------------------------------- the Counter on its own
\* no loadRequests call is part of the run
SelectIdle ==
  /\ args = NoArgs /\ cb = FALSE /\ stored = <<>> /\ spc = "off"
  /\ selection = <<>> /\ emitted = <<>>
  /\ statusLoaded = {} /\ linesLoaded = {}
  /\ failure = NoFailure

CounterInit ==
  /\ cpc = "new"
  /\ counter = EmptyCounter
  /\ cstart = BaseHour
  /\ cend = BaseHour
  /\ accumulated = <<>>
  /\ SelectIdle
  /\ SummaryIdle

\* counter = Counter(startTime, endTime)
New(start, end) ==
  /\ cpc = "new"
  /\ cpc' = "ready"
  /\ counter' = CounterNew(start, end)
  /\ cstart' = start
  /\ cend' = end
  /\ accumulated' = <<>>
  /\ UNCHANGED <<svars, avars>>

\* counter(request)
Call(request) ==
  /\ cpc = "ready"
  /\ Len(accumulated) < MaxAccum
  /\ counter' = CounterCall(counter, request)
  /\ accumulated' = Append(accumulated, request)
  /\ UNCHANGED <<cpc, cstart, cend>>
  /\ UNCHANGED <<svars, avars>>

CounterNext ==
  \/ \E start \in Times, end \in Times : New(start, end)
  \/ \E request \in CounterRequests : Call(request)

SpecCounter == CounterInit /\ [][CounterNext]_vars

\* --------------------------------------------------- strings of the keys
\* the characters of the weekday keys in the order of their code points
Alphabet ==
  <<"$","0","1","2","3","4","5","6","F","M","S","T","W",
    "a","d","e","h","i","n","o","r","s","t","u","y">>

CharRank(ch) == CHOOSE i \in 1 .. Len(Alphabet) : Alphabet[i] = ch

\* a < b for two Python strings
RECURSIVE StrLess(_, _)
StrLess(a, b) ==
  IF b = <<>> THEN FALSE
  ELSE IF a = <<>> THEN TRUE
  ELSE IF Head(a) = Head(b) THEN StrLess(Tail(a), Tail(b))
  ELSE CharRank(Head(a)) < CharRank(Head(b))

\* sorted(keys)
SortedKeys(keys) ==
  [i \in 1 .. Cardinality(keys) |->
     CHOOSE k \in keys : Cardinality({ x \in keys : StrLess(x, k) }) = i - 1]

\* k[2:]
StripOrdinal(k) == SubSeq(k, 3, Len(k))

\* ------------------------------------------------- properties of Counter
\* the weekday names in calendar order, Sunday first
DayNames ==
  << <<"S","u","n","d","a","y">>, <<"M","o","n","d","a","y">>,
     <<"T","u","e","s","d","a","y">>, <<"W","e","d","n","e","s","d","a","y">>,
     <<"T","h","u","r","s","d","a","y">>, <<"F","r","i","d","a","y">>,
     <<"S","a","t","u","r","d","a","y">> >>

DayIndex(name) == CHOOSE i \in 1 .. 7 : DayNames[i] = name

OrdinalDigits == <<"0","1","2","3","4","5","6">>

\* day of the week of a Gregorian date, 0 = Sunday (Sakamoto's rule)
MonthOffsets == <<0, 3, 2, 5, 0, 3, 5, 1, 4, 6, 2, 4>>

DayOfWeek(date) ==
  LET y == IF date[2] < 3 THEN date[1] - 1 ELSE date[1]
  IN  (y + (y \div 4) - (y \div 100) + (y \div 400)
         + MonthOffsets[date[2]] + date[3]) % 7

AllZero(d) == \A k \in DOMAIN d : d[k] = <<0, 0, 0, 0>>

Fresh == cpc = "ready" /\ accumulated = <<>>

\* C1: a Counter constructed with start < end has exactly the 24 hourly keys
\* "00".."23" and exactly ceil((end - start) / 1 day) daily keys, and every
\* seeded bucket of the four mappings holds (0, 0, 0, 0).
C1_SeededKeys ==
  (Fresh /\ cstart < cend) =>
     /\ DOMAIN counter.hourly = { <<a, b>> : a \in 0 .. 2, b \in 0 .. 9 }
                                  \ { <<2, b>> : b \in 4 .. 9 }
     /\ Cardinality(DOMAIN counter.hourly) = 24
     /\ Cardinality(DOMAIN counter.daily) = (cend - cstart + 23) \div 24
     /\ AllZero(counter.hourly) /\ AllZero(counter.daily)
     /\ AllZero(counter.monthly) /\ AllZero(counter.weekdaily)

\* a Counter over a range of several days that is no whole number of days
C1_Witness ==
  /\ Fresh /\ cstart < cend
  /\ (cend - cstart) % 24 # 0
  /\ Cardinality(DOMAIN counter.daily) >= 3

\* C2 as stated: no Counter object exists for a range with end <= start.
C2_NoCounterForEmptyRange == (cpc = "ready") => (cstart < cend)

\* C2 amended: constructing a Counter with end <= start does not fail; the
\* Counter it yields has the 24 hourly buckets at (0, 0, 0, 0) and empty
\* daily, monthly and weekday mappings.
C2_EmptyRangeCounter ==
  (Fresh /\ cend <= cstart) =>
     /\ Cardinality(DOMAIN counter.hourly) = 24
     /\ AllZero(counter.hourly)
     /\ DOMAIN counter.daily = {}
     /\ DOMAIN counter.monthly = {}
     /\ DOMAIN counter.weekdaily = {}

C2_Witness == Fresh /\ cend < cstart /\ DOMAIN counter.daily = {}

\* C3 as stated: after construction with start < end, the daily, monthly
\* and weekday key of every timestamp t with start <= t < end is present.
C3_EveryBucketInRange ==
  (Fresh /\ cstart < cend) =>
     \A t \in cstart .. (cend - 1) :
        /\ DayKey(t) \in DOMAIN counter.daily
        /\ MonthKey(t) \in DOMAIN counter.monthly
        /\ WeekdayKey(t) \in DOMAIN counter.weekdaily

\* C4: the weekday keys, sorted as strings, are in calendar order Sunday to
\* Saturday; a key without its two leading characters is the weekday name;
\* the key of a timestamp carries the day-of-week number of its date.
C4_WeekdayKeys ==
  (cpc = "ready") =>
     LET keys   == DOMAIN counter.weekdaily
         sorted == SortedKeys(keys)
     IN  /\ \A k \in keys :
               \E n \in 1 .. 7 : StripOrdinal(k) = DayNames[n]
                                  /\ k[1] = "$" /\ k[2] = OrdinalDigits[n]
         /\ \A i \in DOMAIN sorted : \A j \in DOMAIN sorted :
               i < j => DayIndex(StripOrdinal(sorted[i]))
                          < DayIndex(StripOrdinal(sorted[j]))
         /\ Cardinality(keys) = 7 =>
               [i \in 1 .. 7 |-> StripOrdinal(sorted[i])] = DayNames
         /\ \A i \in DOMAIN accumulated :
               \E k \in keys :
                  /\ k[2] = OrdinalDigits[DayOfWeek(DayKey(accumulated[i].created)) + 1]
                  /\ counter.weekdaily[k][1] >= 1
         /\ (accumulated = <<>> /\ cstart < cend) =>
               \E k \in keys : k[2] = OrdinalDigits[DayOfWeek(DayKey(cstart)) + 1]

\* all seven keys are seeded and a request was counted on a Sunday
C4_Witness ==
  /\ cpc = "ready"
  /\ Cardinality(DOMAIN counter.weekdaily) = 7
  /\ \E i \in DOMAIN accumulated : DayOfWeek(DayKey(accumulated[i].created)) = 0

\* the bucket of key k of d after a call is the bucket before plus delta,
\* and no other bucket of d changed
BucketStep(d, dNew, k, delta) ==
  /\ DOMAIN dNew = (DOMAIN d) \cup {k}
  /\ LET old == IF k \in DOMAIN d THEN d[k] ELSE <<0, 0, 0, 0>>
     IN  dNew[k] = <<old[1] + delta[1], old[2] + delta[2],
                     old[3] + delta[3], old[4] + delta[4]>>
  /\ \A x \in (DOMAIN d) \ {k} : dNew[x] = d[x]

\* C5: one call adds (1, totalLineCount, totalLineCount - okLineCount, sum
\* of the status line sizes) to the hourly, daily, monthly and weekday bucket
\* of the request's creation time and changes no other bucket.
C5_CallAddsToFourBuckets ==
  [][ (Len(accumulated') = Len(accumulated) + 1) =>
        LET r     == accumulated'[Len(accumulated')]
            delta == <<1, r.total, r.total - r.ok, SumSeq(r.sizes)>>
            date  == DayKey(r.created)
        IN  /\ BucketStep(counter.hourly, counter'.hourly,
                          <<(r.created % 24) \div 10, (r.created % 24) % 10>>, delta)
            /\ BucketStep(counter.daily, counter'.daily, date, delta)
            /\ BucketStep(counter.monthly, counter'.monthly,
                          <<date[1], date[2]>>, delta)
            /\ BucketStep(counter.weekdaily, counter'.weekdaily,
                          weekdays[DayOfWeek(date) + 1], delta) ]_vars

\* a second call on a bucket already counted, with status lines, and a call
\* for a creation time outside the seeded range
C5_Witness ==
  /\ Len(accumulated) = 2
  /\ accumulated[2].sizes # <<>>
  /\ accumulated[2].total > accumulated[2].ok
  /\ accumulated[1].created = accumulated[2].created
  /\ accumulated[1].created >= cend
  /\ cstart < cend

\* C6: accumulating R1 then R2 into a fresh Counter gives the same four
\* mappings as accumulating R2 then R1.
C6_OrderIndependent ==
  (cpc = "ready" /\ Len(accumulated) = 2) =>
     counter = CounterCall(CounterCall(CounterNew(cstart, cend), accumulated[2]),
                           accumulated[1])

\* two different requests counted in the same daily bucket
C6_Witness ==
  /\ cpc = "ready" /\ Len(accumulated) = 2
  /\ accumulated[1] # accumulated[2]
  /\ accumulated[1].created = accumulated[2].created
  /\ accumulated[1].total # accumulated[2].total

\* the mappings of a Counter
Mappings == {"hourly", "daily", "monthly", "weekdaily"}

\* C26: after n calls on one Counter, repeats of a request included, the
\* requestCount summed over the buckets is n in each of the four mappings,
\* and the sums of lineCount and of errorCount are the same in the four
\* mappings; a request accumulated twice is counted twice.
C26_CallsCountedInEveryMapping ==
  (cpc = "ready") =>
    \A m \in Mappings :
       /\ SumColumn(counter[m], 1) = Len(accumulated)
       /\ SumColumn(counter[m], 2) = SumColumn(counter.hourly, 2)
       /\ SumColumn(counter[m], 3) = SumColumn(counter.hourly, 3)

\* the same request accumulated twice: its day bucket counts two requests
\* and twice its lines
C26_Witness ==
  /\ cpc = "ready"
  /\ Len(accumulated) = 2
  /\ accumulated[1] = accumulated[2]
  /\ accumulated[1].total = 2
  /\ DayKey(accumulated[1].created) \in DOMAIN counter.daily
  /\ counter.daily[DayKey(accumulated[1].created)][1] = 2
  /\ counter.daily[DayKey(accumulated[1].created)][2] = 4

====
